---- MODULE Spec2Model ----
(***************************************************************************)
(* A model of the GTFS Realtime Ireland sensor (gtfs-rt-irl/sensor.py):    *)
(* the schedule query get_times with its calendar check validate_service,  *)
(* the two feed fetches, the merge in _update_route_statuses, the          *)
(* throttled PublicTransportData.update, the set-up of the sensors and a   *)
(* reader of a sensor's attributes.                                        *)
(*                                                                         *)
(* Time is in whole seconds of local time counted from 00:00:00 of day 0,  *)
(* which is a Monday.  A departure_time of the schedule is the number of   *)
(* seconds after 1970-01-01 00:00:00 that its text denotes.                *)
(***************************************************************************)
EXTENDS Integers, Sequences, FiniteSets, TLC

VARIABLES
    now,                  \* the wall clock
    route_deps,           \* PublicTransportData._route_deps
    set_limit,            \* PublicTransportData._set_limit
    vehicle_position_url, \* PublicTransportData._vehicle_position_url
    info,                 \* PublicTransportData.info
    throttle,             \* the Throttle's record of update(): [called, last]
    setup,                \* setup_platform: "constructing", "running", "failed"
    n_sensors,            \* sensors constructed so far by setup_platform
    cycle,                \* what the last call of update() did
    pass_starts,          \* start times of the last two pipeline passes
    rd,                   \* the reader in extra_state_attributes
    gt                    \* the last call of get_times and what it returned

vars == << now, route_deps, set_limit, vehicle_position_url, info, throttle,
           setup, n_sensors, cycle, pass_starts, rd, gt >>

-----------------------------------------------------------------------------
(* Bounds of the model. *)

\* Greatest arrivals_limit tried.
MaxLimit == 2
\* Greatest number of selectors in one call of get_times.
MaxSelectors == 2
\* Last day on which get_times is called.
MaxDate == 1
\* Number of 30 second steps the wall clock takes in the polling model.
MaxTicks == 6
\* Greatest number of entities in a trip-update feed given to the merge.
MaxEntities == 2

-----------------------------------------------------------------------------
(* Program constants. *)

MIN_TIME_BETWEEN_UPDATES == 60
HTTP_OK == 200

-----------------------------------------------------------------------------
(* The static schedule: the rows of the sqlite tables the queries read.     *)

StopsTable ==
    << [stop_id |-> "s1", stop_name |-> "Main St"],
       [stop_id |-> "s2", stop_name |-> "Oak Ave"] >>

RoutesTable ==
    << [route_id |-> "r145", route_short_name |-> "145", agency_id |-> "OP1"],
       [route_id |-> "r46",  route_short_name |-> "46A", agency_id |-> "OP1"] >>

TripsTable ==
    << [trip_id |-> "T2", route_id |-> "r145", service_id |-> "daily"],
       [trip_id |-> "T1", route_id |-> "r145", service_id |-> "daily"],
       [trip_id |-> "T3", route_id |-> "r46",  service_id |-> "day1"],
       [trip_id |-> "T4", route_id |-> "r46",  service_id |-> "notMon"],
       [trip_id |-> "T5", route_id |-> "r46",  service_id |-> "except1"],
       [trip_id |-> "T6", route_id |-> "r145", service_id |-> "daily"] >>

\* T6 does not call at "Main St": it has no stop_times row there.
StopTimesTable ==
    << [trip_id |-> "T1", stop_id |-> "s1", departure_time |-> 600],
       [trip_id |-> "T2", stop_id |-> "s1", departure_time |-> 720],
       [trip_id |-> "T3", stop_id |-> "s2", departure_time |-> 660],
       [trip_id |-> "T4", stop_id |-> "s2", departure_time |-> 780],
       [trip_id |-> "T5", stop_id |-> "s2", departure_time |-> 900],
       [trip_id |-> "T6", stop_id |-> "s2", departure_time |-> 630] >>

\* days[1] is monday ... days[7] is sunday; the dates are day numbers.
CalendarTable ==
    << [service_id |-> "daily",   days |-> <<1, 1, 1, 1, 1, 1, 1>>,
        start_date |-> 0, end_date |-> 9],
       [service_id |-> "day1",    days |-> <<1, 1, 1, 1, 1, 1, 1>>,
        start_date |-> 1, end_date |-> 1],
       [service_id |-> "notMon",  days |-> <<0, 1, 1, 1, 1, 1, 1>>,
        start_date |-> 0, end_date |-> 9],
       [service_id |-> "except1", days |-> <<1, 1, 1, 1, 1, 1, 1>>,
        start_date |-> 0, end_date |-> 9] >>

CalendarDatesTable ==
    << [service_id |-> "except1", date |-> 1] >>

-----------------------------------------------------------------------------
(* Dates and times. *)

\* time.mktime(time.strptime(date, "%Y-%m-%d")): midnight at the start of the day.
DayStart(date) == date * 86400

\* The calendar date of an instant (strftime with "%Y-%m-%d").
DateOf(t) == t \div 86400

\* datetime.today().weekday(): 0 is Monday.
WeekdayOf(t) == DateOf(t) % 7

\* strftime with "1970-01-01 %H:%M:%S.%f", parsed back: the time of day.
EpochNow(t) == t % 86400

-----------------------------------------------------------------------------
(* validate_service *)

\* validity = bool(dt1 <= d_t <= dt2): d_t is the present instant, dt1 and dt2
\* are the midnights that start the first and the last day.
Validity(row, t) ==
    DayStart(row.start_date) <= t /\ t <= DayStart(row.end_date)

\* [raised, result]: raised when the service has no calendar row (list(None)).
validate_service(service_id, t) ==
    LET rows == SelectSeq(CalendarTable, LAMBDA r : r.service_id = service_id)
    IN  IF rows = << >>
        THEN [raised |-> TRUE, result |-> FALSE]
        ELSE LET days_of_week == Head(rows)
                 today_flag == days_of_week.days[WeekdayOf(t) + 1]
                 excp == SelectSeq(CalendarDatesTable,
                             LAMBDA r : r.service_id = service_id
                                        /\ r.date = DateOf(t))
             IN  [raised |-> FALSE,
                  result |-> IF today_flag = 1 /\ Validity(days_of_week, t)
                             THEN excp = << >>
                             ELSE FALSE]

-----------------------------------------------------------------------------
(* get_times *)

Min(a, b) == IF a <= b THEN a ELSE b
Max(a, b) == IF a >= b THEN a ELSE b

\* s[lo:hi] of Python for 0 <= lo and any hi (a negative hi counts from the end).
Slice(s, lo, hi) ==
    LET n == Len(s)
        h == IF hi < 0 THEN Max(n + hi, 0) ELSE Min(hi, n)
    IN  IF h <= lo THEN << >> ELSE SubSeq(s, lo + 1, h)

\* Insert x after every element whose key is <= its own: a stable insertion.
RECURSIVE InsertByKey(_, _, _)
InsertByKey(x, s, field) ==
    IF s = << >> THEN << x >>
    ELSE IF x[field] < Head(s)[field] THEN << x >> \o s
    ELSE << Head(s) >> \o InsertByKey(x, Tail(s), field)

\* sorted(s, key=lambda x: x[field]) and list.sort(key=...): stable, ascending.
RECURSIVE SortedByKey(_, _)
SortedByKey(s, field) ==
    IF s = << >> THEN << >>
    ELSE InsertByKey(s[Len(s)], SortedByKey(SubSeq(s, 1, Len(s) - 1), field), field)

NoTimes == [raised |-> FALSE, times |-> << >>, validated |-> {}]

TimesRaised == [raised |-> TRUE, times |-> << >>, validated |-> {}]

\* What two successive parts of a loop did, the second not run when the
\* first raised.
Then(one, rest) ==
    IF one.raised THEN TimesRaised
    ELSE [raised |-> rest.raised,
          times |-> one.times \o rest.times,
          validated |-> one.validated \cup rest.validated]

\* if validate_service(service_id): stop_times.append(...), v being what
\* validate_service did.
AppendIfValid(r_s, trip, epoch_dep, diff, v) ==
    IF v.raised THEN TimesRaised
    ELSE [raised |-> FALSE,
          times |-> IF v.result
                    THEN << [stop_name |-> r_s[1],
                             route |-> r_s[2],
                             trip |-> trip.trip_id,
                             minutes |-> diff \div 60,
                             dep_time_str |-> epoch_dep] >>
                    ELSE << >>,
          validated |-> {[service_id |-> trip.service_id, result |-> v.result]}]

\* if epoch_dep >= epoch_now: diff = epoch_dep - epoch_now ...
DepartureTimes(r_s, trip, epoch_dep, epoch_now, t) ==
    IF epoch_dep >= epoch_now
    THEN AppendIfValid(r_s, trip, epoch_dep, epoch_dep - epoch_now,
                       validate_service(trip.service_id, t))
    ELSE NoTimes

\* if departure is not None: ..., rows being the stop_times rows of the trip
\* at the stop.
IfDeparture(r_s, trip, rows, t) ==
    IF rows = << >> THEN NoTimes
    ELSE DepartureTimes(r_s, trip, Head(rows).departure_time, EpochNow(t), t)

\* The body of the loop over the trips of the route, for one trip.
TripTimes(r_s, stop_id, trip, t) ==
    IfDeparture(r_s, trip,
        SelectSeq(StopTimesTable,
            LAMBDA r : r.trip_id = trip.trip_id /\ r.stop_id = stop_id),
        t)

\* for trip_id, service_id in ctrips.fetchall()
RECURSIVE TripsLoop(_, _, _, _)
TripsLoop(r_s, stop_id, trips, t) ==
    IF trips = << >> THEN NoTimes
    ELSE Then(TripTimes(r_s, stop_id, Head(trips), t),
              TripsLoop(r_s, stop_id, Tail(trips), t))

\* req_stop_id = stop_data[0]; req_route_id = valid_operator[1]: both rows
\* are read before any test for None.
ResolvedTimes(r_s, stop_data, valid_operator, t) ==
    IF stop_data = << >> \/ valid_operator = << >>
    THEN TimesRaised
    ELSE TripsLoop(r_s, Head(stop_data).stop_id,
             SelectSeq(TripsTable,
                 LAMBDA r : r.route_id = Head(valid_operator).route_id),
             t)

\* The body of the loop over the selectors, for one selector
\* r_s = <<stop name, route short name, operator>>.
SelectorTimes(r_s, t) ==
    ResolvedTimes(r_s,
        SelectSeq(StopsTable, LAMBDA r : r.stop_name = r_s[1]),
        SelectSeq(RoutesTable,
            LAMBDA r : r.route_short_name = r_s[2] /\ r.agency_id = r_s[3]),
        t)

\* for r_s in route_stops
RECURSIVE SelectorsLoop(_, _)
SelectorsLoop(route_stops, t) ==
    IF route_stops = << >> THEN NoTimes
    ELSE Then(SelectorTimes(Head(route_stops), t),
              SelectorsLoop(Tail(route_stops), t))

\* The cap is taken before the sort: what a slip in the last two statements
\* of get_times would do.
CutThenSort(stop_times, limit) ==
    SortedByKey(Slice(stop_times, 0, limit), "minutes")

\* stop_times = sorted(stop_times, key=lambda x: x[3]); stop_times[0:set_limit]
SortAndCut(stop_times, limit) ==
    Slice(SortedByKey(stop_times, "minutes"), 0, limit)

\* What get_times returns after the loop over the selectors.
TimesResult(loop, limit) ==
    IF loop.raised
    THEN [raised |-> TRUE, collected |-> << >>, result |-> << >>,
          validated |-> {}]
    ELSE [raised |-> FALSE, collected |-> loop.times,
          result |-> SortAndCut(loop.times, limit),
          validated |-> loop.validated]

\* get_times(route_stops, gtfs_database_path, set_limit) called at instant t:
\* raised, or the list returned; collected is stop_times before the sort.
get_times(route_stops, limit, t) ==
    TimesResult(SelectorsLoop(route_stops, t), limit)

-----------------------------------------------------------------------------
(* The HTTP responses and the feeds they carry.                             *)
(*                                                                          *)
(* A response is [transport, status_code, valid, entity]: transport is      *)
(* "error" when requests.get raises instead of returning; valid tells       *)
(* whether the body decodes as a FeedMessage, and entity is what it decodes *)
(* to.  A trip-update entity is [has_trip_update, trip_id, vehicle_id,      *)
(* stop_time_update], a stop-time update [has_arrival, delay]; a vehicle    *)
(* entity is [route_id, vehicle_id, position].                              *)

Response(transport, status_code, valid, entity) ==
    [transport |-> transport, status_code |-> status_code,
     valid |-> valid, entity |-> entity]

\* No request was made.
NoResponse == Response("none", 0, FALSE, << >>)

\* requests.get followed by feed.ParseFromString(response.content), as both
\* fetches do it: the status is logged and the body is decoded whatever the
\* status was.  [raised, decoded, entity].
FetchFeed(resp) ==
    IF resp.transport = "error"
    THEN [raised |-> TRUE, decoded |-> FALSE, entity |-> << >>]
    ELSE [raised |-> ~resp.valid, decoded |-> TRUE,
          entity |-> IF resp.valid THEN resp.entity ELSE << >>]

\* dict.get(key) on the positions: None when the key is absent.
PositionsGet(positions, id) ==
    IF id \in DOMAIN positions THEN positions[id] ELSE "None"

\* positions[vehicle.vehicle.id] = vehicle.position, unless the vehicle has
\* no route: it is not in service.
PositionsPut(positions, vehicle) ==
    IF vehicle.route_id = "" THEN positions
    ELSE [id \in DOMAIN positions \cup {vehicle.vehicle_id} |->
             IF id = vehicle.vehicle_id THEN vehicle.position
             ELSE positions[id]]

\* for entity in feed.entity of _get_vehicle_positions
RECURSIVE PositionsLoop(_, _)
PositionsLoop(entities, positions) ==
    IF entities = << >> THEN positions
    ELSE PositionsLoop(Tail(entities), PositionsPut(positions, Head(entities)))

\* What _get_vehicle_positions does with the feed it fetched.
PositionsOf(feed) ==
    [raised |-> feed.raised, decoded |-> feed.decoded,
     positions |-> IF feed.raised THEN << >>
                   ELSE PositionsLoop(feed.entity, << >>)]

\* _get_vehicle_positions: [raised, decoded, positions]
get_vehicle_positions(resp) ==
    PositionsOf(FetchFeed(resp))

-----------------------------------------------------------------------------
(* The merge of _update_route_statuses *)

\* A whole-minute floor of the delay: not what int() does to a negative one.
DelayMinutesFloor(delay) == delay \div 60

\* int(stop.arrival.delay / 60): the quotient cut towards zero.
DelayMinutes(delay) ==
    IF delay >= 0 THEN delay \div 60 ELSE -((-delay) \div 60)

\* modified_time after one stop-time update.
StopDelay(stop, modified_time) ==
    IF stop.has_arrival
    THEN modified_time + DelayMinutes(stop.delay)
    ELSE modified_time

\* for stop in entity.trip_update.stop_time_update
RECURSIVE StopsLoop(_, _)
StopsLoop(stop_time_update, modified_time) ==
    IF stop_time_update = << >> THEN modified_time
    ELSE StopsLoop(Tail(stop_time_update),
                   StopDelay(Head(stop_time_update), modified_time))

\* The position is looked up for every entity that has a trip update,
\* whatever its trip.
EntityPosition(entity, vehicle_position, positions) ==
    IF entity.has_trip_update
    THEN PositionsGet(positions, entity.vehicle_id)
    ELSE vehicle_position

\* modified_time after one entity of the feed.
EntityTime(entity, trip_no, modified_time) ==
    IF entity.has_trip_update /\ entity.trip_id = trip_no
    THEN StopsLoop(entity.stop_time_update, modified_time)
    ELSE modified_time

\* for entity in feed.entity
RECURSIVE EntitiesLoop(_, _, _, _, _)
EntitiesLoop(entities, trip_no, modified_time, vehicle_position, positions) ==
    IF entities = << >>
    THEN [modified_time |-> modified_time, vehicle_position |-> vehicle_position]
    ELSE EntitiesLoop(Tail(entities), trip_no,
             EntityTime(Head(entities), trip_no, modified_time),
             EntityPosition(Head(entities), vehicle_position, positions),
             positions)

\* dep_time[10:16] of "1970-01-01 HH:MM:SS.ffffff": the hour and the minute.
DepTimeSlice(dep_time_str) ==
    << (dep_time_str % 86400) \div 3600, (dep_time_str % 3600) \div 60 >>

\* StopDetails(modified_time, vehicle_position, dep_time)
Details(loop, dep_time_str) ==
    [arrival_time |-> loop.modified_time,
     position |-> loop.vehicle_position,
     dep_time |-> DepTimeSlice(dep_time_str)]

\* The StopDetails of one departure; vehicle_position starts as the
\* integer 0, written "0".
StopDetails(arrival_time, entities, positions) ==
    Details(EntitiesLoop(entities, arrival_time.trip, arrival_time.minutes,
                         "0", positions),
            arrival_time.dep_time_str)

\* The details of the departures of one (route, stop), in the order of
\* next_times.
RECURSIVE GroupDetails(_, _, _, _)
GroupDetails(next_times, key, entities, positions) ==
    IF next_times = << >> THEN << >>
    ELSE (IF << Head(next_times).route, Head(next_times).stop_name >> = key
          THEN << StopDetails(Head(next_times), entities, positions) >>
          ELSE << >>)
         \o GroupDetails(Tail(next_times), key, entities, positions)

\* The lists are published as they were appended.
Unsorted(details) == details

\* departure_times[route_no][stop_name].sort(key=lambda t: t.arrival_time)
SortByArrival(details) == SortedByKey(details, "arrival_time")

\* departure_times: the dict of dicts, as a function of <<route, stop name>>.
Merge(next_times, entities, positions) ==
    LET keys == {<< next_times[i].route, next_times[i].stop_name >> :
                     i \in DOMAIN next_times}
    IN  [key \in keys |->
            SortByArrival(GroupDetails(next_times, key, entities, positions))]

\* _update_route_statuses after get_times and the request, times and feed
\* being what these did.
RouteStatuses(times, feed, positions) ==
    IF times.raised
    THEN [raised |-> TRUE, times_raised |-> TRUE, next_times |-> << >>,
          fetched |-> FALSE, decoded |-> FALSE, info |-> << >>]
    ELSE [raised |-> feed.raised, times_raised |-> FALSE,
          next_times |-> times.result,
          fetched |-> TRUE, decoded |-> feed.decoded,
          info |-> IF feed.raised THEN << >>
                   ELSE Merge(times.result, feed.entity, positions)]

\* _update_route_statuses(vehicle_positions) at instant t with the response
\* resp to the trip-update request: [raised, times_raised, next_times,
\* fetched, decoded, info], info being the new self.info when nothing raised.
update_route_statuses(deps, limit, positions, resp, t) ==
    RouteStatuses(get_times(deps, limit, t), FetchFeed(resp), positions)

-----------------------------------------------------------------------------
(* The inputs tried. *)

SelMain    == << "Main St", "145", "OP1" >>
SelOak     == << "Oak Ave", "46A", "OP1" >>
\* No stop has this name.
SelNoStop  == << "Nowhere", "145", "OP1" >>
\* No route has this short name with this operator.
SelNoRoute == << "Main St", "145", "OP9" >>

SelectorSet == {SelMain, SelOak, SelNoStop, SelNoRoute}

SelectorLists == UNION {[1..k -> SelectorSet] : k \in 0..MaxSelectors}

\* arrivals_limit is vol.Coerce(int): any integer.
Limits == (-1)..MaxLimit

TimesOfDay == {0, 30, 601, 43200}

CallTimes == {DayStart(d) + tod : d \in 0..MaxDate, tod \in TimesOfDay}

Stu(delay) == [has_arrival |-> TRUE, delay |-> delay]

StuNoArrival == [has_arrival |-> FALSE, delay |-> 0]

TripEntity(trip, vehicle, stus) ==
    [has_trip_update |-> TRUE, trip_id |-> trip, vehicle_id |-> vehicle,
     stop_time_update |-> stus]

\* An entity of the feed that carries no trip update.
OtherEntity ==
    [has_trip_update |-> FALSE, trip_id |-> "", vehicle_id |-> "",
     stop_time_update |-> << >>]

VehicleEntity(route, vehicle, position) ==
    [route_id |-> route, vehicle_id |-> vehicle, position |-> position]

TransportError == Response("error", 0, FALSE, << >>)

\* The responses to the trip-update request in the polling model: a delay of
\* T1, an empty feed, an error page, an error with an empty body, no answer.
TripResponses ==
    { Response("ok", HTTP_OK, TRUE, << TripEntity("T1", "V1", << Stu(120) >>) >>),
      Response("ok", HTTP_OK, TRUE, << >>),
      Response("ok", 500, FALSE, << >>),
      Response("ok", 500, TRUE, << >>),
      TransportError }

\* The responses to the vehicle-position request: V1 in service and V2 not,
\* an error page, no answer.
PosResponses ==
    { Response("ok", HTTP_OK, TRUE, << VehicleEntity("r145", "V1", "P1"),
                                       VehicleEntity("", "V2", "P2") >>),
      Response("ok", 500, FALSE, << >>),
      TransportError }

\* What the vehicle-position request can answer for a configured URL:
\* str(None) is no URL, and requests.get raises for it.
PosResponsesFor(url) ==
    IF url = "" THEN {NoResponse}
    ELSE IF url = "None" THEN {TransportError}
    ELSE PosResponses

-----------------------------------------------------------------------------
(* The state before anything ran. *)

NoCall ==
    [called |-> FALSE, route_stops |-> << >>, set_limit |-> 0, at |-> 0,
     raised |-> FALSE, collected |-> << >>, result |-> << >>, validated |-> {}]

\* update() has not been called.
NoCycle ==
    [outcome |-> "none", pos_resp |-> NoResponse, pos_decoded |-> FALSE,
     positions |-> << >>, times_raised |-> FALSE, next_times |-> << >>,
     trip_resp |-> NoResponse, trip_decoded |-> FALSE]

IdleReader ==
    [pc |-> "idle", sensor |-> 0, next_buses |-> << >>, state_buses |-> << >>,
     attrs |-> << >>]

InitCommon ==
    /\ info = << >>
    /\ throttle = [called |-> FALSE, last |-> 0]
    /\ n_sensors = 0
    /\ cycle = NoCycle
    /\ pass_starts = << >>
    /\ rd = IdleReader

-----------------------------------------------------------------------------------------------------------------------------------------------------
(* get_times on its own: SpecTimes starts with a list of selectors, a limit *)
(* and an instant, and calls get_times with them.                           *)

InitTimes ==
    /\ InitCommon
    /\ now = 0
    /\ route_deps = << >>
    /\ set_limit = 0
    /\ vehicle_position_url = ""
    /\ setup = "running"
    /\ \E route_stops \in SelectorLists, limit \in Limits, t \in CallTimes :
           gt = [NoCall EXCEPT !.route_stops = route_stops,
                               !.set_limit = limit, !.at = t]

GetTimesCall ==
    /\ ~gt.called
    /\ LET r == get_times(gt.route_stops, gt.set_limit, gt.at)
       IN  gt' = [gt EXCEPT !.called = TRUE, !.raised = r.raised,
                            !.collected = r.collected, !.result = r.result,
                            !.validated = r.validated]
    /\ UNCHANGED << now, route_deps, set_limit, vehicle_position_url, info,
                    throttle, setup, n_sensors, cycle, pass_starts, rd >>

NextTimes == GetTimesCall

SpecTimes == InitTimes /\ [][NextTimes]_vars

-----------------------------------------------------------------------------
(* Claims about get_times and validate_service, checked under SpecTimes.    *)

\* The number of places of the list s that hold x.
Count(s, x) == Cardinality({i \in DOMAIN s : s[i] = x})

Range(s) == {s[i] : i \in DOMAIN s}

\* Whether the stop and the route of a selector are both in the schedule.
Resolves(r_s) ==
    /\ \E i \in DOMAIN StopsTable : StopsTable[i].stop_name = r_s[1]
    /\ \E i \in DOMAIN RoutesTable :
           /\ RoutesTable[i].route_short_name = r_s[2]
           /\ RoutesTable[i].agency_id = r_s[3]

\* The departures the selectors that resolve contribute, in their order.
RECURSIVE C1_Expected(_, _)
C1_Expected(route_stops, t) ==
    IF route_stops = << >> THEN << >>
    ELSE (IF Resolves(Head(route_stops))
          THEN SelectorTimes(Head(route_stops), t).times
          ELSE << >>) \o C1_Expected(Tail(route_stops), t)

\* C1: a call of get_times raises nothing, a selector whose stop or route is
\* not in the schedule contributes no departure, and every other selector of
\* the call contributes its qualifying departures.
C1_SkipsUnknownSelector ==
    gt.called =>
        /\ ~gt.raised
        /\ gt.collected = C1_Expected(gt.route_stops, gt.at)

\* No departure left out is sooner than a departure kept, and what is kept
\* is part of what was collected.
C4_KeepsTheSoonest ==
    /\ \A x \in Range(gt.result) : Count(gt.result, x) <= Count(gt.collected, x)
    /\ \A x \in Range(gt.collected) :
           Count(gt.result, x) < Count(gt.collected, x) =>
               \A k \in Range(gt.result) : k.minutes <= x.minutes

\* C4 as stated: for every limit, the list get_times returns has at most
\* limit entries, and they are the limit soonest of the departures collected.
C4_CapAnyLimit ==
    (gt.called /\ ~gt.raised) =>
        /\ Len(gt.result) <= gt.set_limit
        /\ Len(gt.result) = Min(gt.set_limit, Len(gt.collected))
        /\ C4_KeepsTheSoonest

\* C4, amended: for every limit that is not negative, the list get_times
\* returns has at most limit entries, all the departures collected when they
\* are fewer, and no departure left out is sooner than a departure kept.
C4_CapAfterSort ==
    (gt.called /\ ~gt.raised /\ gt.set_limit >= 0) =>
        /\ Len(gt.result) <= gt.set_limit
        /\ Len(gt.result) = Min(gt.set_limit, Len(gt.collected))
        /\ C4_KeepsTheSoonest

\* The cap left a departure out, and the first departures collected were not
\* the soonest.
C4_Witness ==
    /\ gt.called /\ ~gt.raised
    /\ gt.set_limit >= 1
    /\ Len(gt.collected) > gt.set_limit
    /\ gt.result # SubSeq(gt.collected, 1, gt.set_limit)

\* Whether the service runs on the calendar date: its weekday flag is set,
\* the date is within [start_date, end_date], and no exception row names it.
C8_ActiveOn(service_id, date) ==
    \E i \in DOMAIN CalendarTable :
        /\ CalendarTable[i].service_id = service_id
        /\ CalendarTable[i].days[(date % 7) + 1] = 1
        /\ CalendarTable[i].start_date <= date
        /\ date <= CalendarTable[i].end_date
        /\ \A j \in DOMAIN CalendarDatesTable :
               ~(/\ CalendarDatesTable[j].service_id = service_id
                 /\ CalendarDatesTable[j].date = date)

\* C8: validate_service returns true exactly when the weekday flag is set,
\* the calendar date is within [start, end], both inclusive, whatever the
\* time of day, and the date has no exception row.
C8_ActiveByCalendarDate ==
    gt.called =>
        \A v \in gt.validated :
            v.result = C8_ActiveOn(v.service_id, DateOf(gt.at))

-----------------------------------------------------------------------------
(* PublicTransportData.update, throttled *)

\* Throttle's wrapper returns without calling the method when the method was
\* called before and no more than min_time has passed since (throttle[1] is
\* None until a call has returned).
Throttled ==
    throttle.called /\ ~(now - throttle.last > MIN_TIME_BETWEEN_UPDATES)

\* What a pass did, and info as it leaves it: pos is what the positions
\* request did and urs what _update_route_statuses did.
PassResult(pos_resp, trip_resp, pos, urs) ==
    IF pos.raised
    THEN [raised |-> TRUE, info |-> info,
          cycle |-> [NoCycle EXCEPT !.outcome = "raised",
                                    !.pos_resp = pos_resp,
                                    !.pos_decoded = pos.decoded]]
    ELSE [raised |-> urs.raised,
          info |-> IF urs.raised THEN info ELSE urs.info,
          cycle |-> [outcome |-> IF urs.raised THEN "raised" ELSE "published",
                     pos_resp |-> IF vehicle_position_url # ""
                                  THEN pos_resp ELSE NoResponse,
                     pos_decoded |-> pos.decoded,
                     positions |-> pos.positions,
                     times_raised |-> urs.times_raised,
                     next_times |-> urs.next_times,
                     trip_resp |-> IF urs.fetched THEN trip_resp
                                   ELSE NoResponse,
                     trip_decoded |-> urs.decoded]]

\* positions = self._get_vehicle_positions() if the URL is not "" else {}
UpdatePositions(pos_resp) ==
    IF vehicle_position_url # ""
    THEN get_vehicle_positions(pos_resp)
    ELSE [raised |-> FALSE, decoded |-> FALSE, positions |-> << >>]

\* self._update_route_statuses(positions)
UpdateStatuses(pos, trip_resp) ==
    update_route_statuses(route_deps, set_limit, pos.positions, trip_resp, now)

\* One pass of update(): the positions when a URL is configured, then
\* _update_route_statuses.
UpdatePass(pos_resp, trip_resp) ==
    PassResult(pos_resp, trip_resp, UpdatePositions(pos_resp),
               UpdateStatuses(UpdatePositions(pos_resp), trip_resp))

\* throttle[1] = utcnow() follows the call of the method: the time is
\* recorded only when the method returned.
RecordCall(raised) ==
    IF raised THEN throttle ELSE [called |-> TRUE, last |-> now]

\* The method ran: pass is what it did.
RunPass(pass, raised) ==
    /\ raised = pass.raised
    /\ cycle' = pass.cycle
    /\ info' = pass.info
    /\ throttle' = RecordCall(pass.raised)
    /\ pass_starts' = IF pass_starts = << >> THEN << now >>
                      ELSE << pass_starts[Len(pass_starts)], now >>

\* self.data.update() with the answers the two requests get; raised tells
\* whether it raised.
DataUpdate(pos_resp, trip_resp, raised) ==
    IF Throttled
    THEN /\ raised = FALSE
         /\ cycle' = [NoCycle EXCEPT !.outcome = "throttled"]
         /\ UNCHANGED << info, throttle, pass_starts >>
    ELSE RunPass(UpdatePass(pos_resp, trip_resp), raised)

-----------------------------------------------------------------------------
(* The polling model: setup_platform constructs one sensor per configured   *)
(* departure, each constructor calling update(); the platform then polls    *)
(* the sensors, and a reader computes a sensor's attributes.                *)

\* The configured departures: both in the schedule, or one of them not.
Configs == { << SelMain, SelOak >>, << SelMain, SelNoRoute >> }

\* str(config.get(CONF_VEHICLE_POSITION_URL)): "None" when none is given.
PositionUrls == {"", "None", "http://vehicles"}

Init ==
    /\ InitCommon
    /\ gt = NoCall
    /\ now = 0
    /\ route_deps \in Configs
    /\ set_limit = MaxLimit + 1
    /\ vehicle_position_url \in PositionUrls
    /\ setup = "constructing"

\* sensors.append(PublicTransportSensor(data, stop_name, route)): the
\* constructor calls update(), and what it raises ends setup_platform.  The
\* two requests are answered from pos_responses and trip_responses.
ConstructSensorWith(pos_responses, trip_responses) ==
    /\ setup = "constructing"
    /\ \E pos_resp \in pos_responses, trip_resp \in trip_responses,
          raised \in BOOLEAN :
           /\ DataUpdate(pos_resp, trip_resp, raised)
           /\ n_sensors' = IF raised THEN n_sensors ELSE n_sensors + 1
           /\ setup' = IF raised THEN "failed"
                       ELSE IF n_sensors + 1 = Len(route_deps) THEN "running"
                       ELSE "constructing"
    /\ UNCHANGED << now, route_deps, set_limit, vehicle_position_url, rd, gt >>

\* PublicTransportSensor.update, called by the platform's poll.
SensorUpdateWith(pos_responses, trip_responses) ==
    /\ setup = "running"
    /\ \E pos_resp \in pos_responses, trip_resp \in trip_responses,
          raised \in BOOLEAN :
           DataUpdate(pos_resp, trip_resp, raised)
    /\ UNCHANGED << now, route_deps, set_limit, vehicle_position_url, setup,
                    n_sensors, rd, gt >>

ConstructSensor ==
    ConstructSensorWith(PosResponsesFor(vehicle_position_url), TripResponses)

SensorUpdate ==
    SensorUpdateWith(PosResponsesFor(vehicle_position_url), TripResponses)

\* Thirty seconds pass.
Tick ==
    /\ now < 30 * MaxTicks
    /\ now' = now + 30
    /\ UNCHANGED << route_deps, set_limit, vehicle_position_url, info, throttle,
                    setup, n_sensors, cycle, pass_starts, rd, gt >>

\* _get_next_buses of sensor i on a value of info.
NextBuses(data_info, i) ==
    LET key == << route_deps[i][2], route_deps[i][1] >>
    IN  IF key \in DOMAIN data_info THEN data_info[key] ELSE << >>

\* The text "-" that stands for no value; a value v is written << v >>.
Dash == << >>

\* PublicTransportSensor.state on the list it read.
StateOf(next_buses) ==
    IF Len(next_buses) > 0 THEN << next_buses[1].arrival_time >> ELSE Dash

\* if next_buses[0].position: the integer 0 and None are false.
Truthy(position) == position \notin {"0", "None"}

\* The attributes extra_state_attributes returns for sensor i, from the list
\* it read and the value self.state gave it.
Attrs(i, next_buses, state) ==
    [due_in |-> state,
     stop_name |-> route_deps[i][1],
     route |-> route_deps[i][2],
     next_arrival |-> IF Len(next_buses) > 1
                      THEN << next_buses[2].arrival_time >> ELSE Dash,
     arrivals |-> Len(next_buses),
     departure_time |-> IF Len(next_buses) > 0
                        THEN << next_buses[1].dep_time >> ELSE Dash,
     position |-> IF Len(next_buses) > 0 /\ Truthy(next_buses[1].position)
                  THEN << next_buses[1].position >> ELSE Dash]

\* extra_state_attributes: next_buses = self._get_next_buses()
ReadNextBuses ==
    /\ setup = "running"
    /\ rd.pc = "idle"
    /\ \E i \in 1..n_sensors :
           rd' = [IdleReader EXCEPT !.pc = "state", !.sensor = i,
                                    !.next_buses = NextBuses(info, i)]
    /\ UNCHANGED << now, route_deps, set_limit, vehicle_position_url, info,
                    throttle, setup, n_sensors, cycle, pass_starts, gt >>

\* ATTR_DUE_IN: self.state, which reads self.data.info again; the other
\* attributes come from next_buses.
ReadState ==
    /\ rd.pc = "state"
    /\ LET state_buses == NextBuses(info, rd.sensor)
       IN  rd' = [rd EXCEPT !.pc = "done", !.state_buses = state_buses,
                            !.attrs = Attrs(rd.sensor, rd.next_buses,
                                            StateOf(state_buses))]
    /\ UNCHANGED << now, route_deps, set_limit, vehicle_position_url, info,
                    throttle, setup, n_sensors, cycle, pass_starts, gt >>

\* return attrs
ReadReturn ==
    /\ rd.pc = "done"
    /\ rd' = IdleReader
    /\ UNCHANGED << now, route_deps, set_limit, vehicle_position_url, info,
                    throttle, setup, n_sensors, cycle, pass_starts, gt >>

Next ==
    \/ ConstructSensor
    \/ SensorUpdate
    \/ Tick

Spec == Init /\ [][Next]_vars

-----------------------------------------------------------------------------
(* The reader beside the polling: SpecRead is the polling model with both   *)
(* configured departures in the schedule and both feeds answering, and a    *)
(* reader of the attributes of a sensor.                                    *)

ReadPosResponses ==
    { Response("ok", HTTP_OK, TRUE, << VehicleEntity("r145", "V1", "P1") >>) }

ReadTripResponses ==
    { Response("ok", HTTP_OK, TRUE, << TripEntity("T1", "V1", << Stu(120) >>) >>),
      Response("ok", HTTP_OK, TRUE, << >>) }

InitRead ==
    /\ InitCommon
    /\ gt = NoCall
    /\ now = 0
    /\ route_deps = << SelMain, SelOak >>
    /\ set_limit = MaxLimit + 1
    /\ vehicle_position_url = "http://vehicles"
    /\ setup = "constructing"

ConstructSensorRead ==
    ConstructSensorWith(ReadPosResponses, ReadTripResponses)

SensorUpdateRead ==
    SensorUpdateWith(ReadPosResponses, ReadTripResponses)

NextRead ==
    \/ ConstructSensorRead
    \/ SensorUpdateRead
    \/ Tick
    \/ ReadNextBuses
    \/ ReadState
    \/ ReadReturn

SpecRead == InitRead /\ [][NextRead]_vars

-----------------------------------------------------------------------------
(* _update_route_statuses on its own: SpecMerge starts at an instant with   *)
(* a map of vehicle positions and a response to the trip-update request,    *)
(* and calls _update_route_statuses(vehicle_positions).                     *)

\* The stop-time updates an entity may carry: a delay of two minutes, two of
\* half a minute, an early arrival, an update without arrival.
DelayLists ==
    { << Stu(120) >>, << Stu(30), Stu(30) >>, << Stu(-90) >>, << StuNoArrival >> }

FeedEntities ==
    { TripEntity(trip, vehicle, stus) :
          trip \in {"T1", "T2"}, vehicle \in {"V1", "V2"}, stus \in DelayLists }
    \cup { OtherEntity }

Feeds == UNION {[1..k -> FeedEntities] : k \in 0..MaxEntities}

MergeResponses ==
    { Response("ok", HTTP_OK, TRUE, feed) : feed \in Feeds }
    \cup { Response("ok", 500, FALSE, << >>), TransportError }

\* The vehicle_positions argument: V2 known or not.
PositionMaps ==
    { [id \in {"V1"} |-> "P1"],
      [id \in {"V1", "V2"} |-> IF id = "V1" THEN "P1" ELSE "P2"] }

\* Midnight of day 0 and of day 1.
MergeTimes == {DayStart(0), DayStart(1)}

InitMerge ==
    /\ info = << >>
    /\ throttle = [called |-> FALSE, last |-> 0]
    /\ n_sensors = 0
    /\ pass_starts = << >>
    /\ rd = IdleReader
    /\ gt = NoCall
    /\ now \in MergeTimes
    /\ route_deps = << SelMain, SelOak >>
    /\ set_limit = MaxLimit + 1
    /\ vehicle_position_url = "http://vehicles"
    /\ setup = "running"
    /\ \E positions \in PositionMaps, resp \in MergeResponses :
           cycle = [NoCycle EXCEPT !.positions = positions, !.trip_resp = resp]

\* What the call did, and info as it leaves it.
StatusesResult(urs) ==
    /\ cycle' = [cycle EXCEPT
                     !.outcome = IF urs.raised THEN "raised" ELSE "published",
                     !.times_raised = urs.times_raised,
                     !.next_times = urs.next_times,
                     !.trip_decoded = urs.decoded]
    /\ info' = IF urs.raised THEN info ELSE urs.info

UpdateRouteStatusesCall ==
    /\ cycle.outcome = "none"
    /\ StatusesResult(update_route_statuses(route_deps, set_limit,
                          cycle.positions, cycle.trip_resp, now))
    /\ UNCHANGED << now, route_deps, set_limit, vehicle_position_url, throttle,
                    setup, n_sensors, pass_starts, rd, gt >>

NextMerge == UpdateRouteStatusesCall

SpecMerge == InitMerge /\ [][NextMerge]_vars

-----------------------------------------------------------------------------
(* Claims about the polling, checked under Spec.                            *)

\* Whether a request was answered with a status that is not success.
ErrorStatus(resp) ==
    resp.transport = "ok" /\ resp.status_code # HTTP_OK

\* C2: when the answer to either request has a status that is not 200, its
\* body is not given to the decoder, and the fetch of the positions yields
\* an empty result.
C2_ErrorBodyNotDecoded ==
    /\ ErrorStatus(cycle.trip_resp) => ~cycle.trip_decoded
    /\ ErrorStatus(cycle.pos_resp) =>
           (~cycle.pos_decoded /\ cycle.positions = << >>)

\* Whether the trip-update request was made and gave no feed: no answer, a
\* status that is not success, or a body that does not decode.
FeedUnavailable(resp) ==
    \/ resp.transport = "error"
    \/ ErrorStatus(resp)
    \/ (resp.transport = "ok" /\ ~resp.valid)

\* The arrival times of a published group and the scheduled minutes of its
\* departures.
ArrivalTimes(details) == [i \in DOMAIN details |-> details[i].arrival_time]

ScheduledMinutes(next_times, key) ==
    LET group == SelectSeq(next_times,
                     LAMBDA d : << d.route, d.stop_name >> = key)
    IN  [i \in DOMAIN group |-> group[i].minutes]

\* C3: a cycle whose trip-update feed is unavailable, the schedule having
\* been read, completes and publishes the arrivals of the schedule alone:
\* every group with the scheduled minutes of its departures.
C3_PublishesScheduleOnly ==
    FeedUnavailable(cycle.trip_resp) =>
        /\ cycle.outcome = "published"
        /\ DOMAIN info = {<< cycle.next_times[i].route,
                             cycle.next_times[i].stop_name >> :
                              i \in DOMAIN cycle.next_times}
        /\ \A key \in DOMAIN info :
               ArrivalTimes(info[key]) = ScheduledMinutes(cycle.next_times, key)

\* C7: two passes of the pipeline never start within the minimum interval
\* of one another.
C7_OnePassPerInterval ==
    Len(pass_starts) = 2 =>
        pass_starts[2] - pass_starts[1] >= MIN_TIME_BETWEEN_UPDATES

-----------------------------------------------------------------------------
(* The claim about the reader, checked under SpecRead.                      *)

\* C6: every value one read of the attributes returns comes from one
\* published result: all from the list the read began with, or all from the
\* list published since.
C6_ReadsOneSnapshot ==
    rd.pc = "done" =>
        \/ rd.attrs = Attrs(rd.sensor, rd.next_buses, StateOf(rd.next_buses))
        \/ rd.attrs = Attrs(rd.sensor, rd.state_buses, StateOf(rd.state_buses))

-----------------------------------------------------------------------------
(* Claims about the merge, checked under SpecMerge.                         *)

\* The feed the call decoded.
MergedFeed == cycle.trip_resp.entity

GroupKeys ==
    {<< cycle.next_times[i].route, cycle.next_times[i].stop_name >> :
         i \in DOMAIN cycle.next_times}

\* The departures of next_times in a group.
GroupOf(key) ==
    SelectSeq(cycle.next_times, LAMBDA d : << d.route, d.stop_name >> = key)

\* C5 as stated: when the minutes of the departures are pairwise distinct,
\* the arrivals of every group are in strictly ascending order of arrival
\* time.
C5_StrictlyAscending ==
    (/\ cycle.outcome = "published"
     /\ \A i, j \in DOMAIN cycle.next_times :
            i # j => cycle.next_times[i].minutes # cycle.next_times[j].minutes)
    => \A key \in DOMAIN info :
           \A i, j \in DOMAIN info[key] :
               i < j => info[key][i].arrival_time < info[key][j].arrival_time

\* C5, amended: the arrivals of every published group are in ascending
\* order of arrival time, equal times allowed.
C5_Ascending ==
    cycle.outcome = "published" =>
        \A key \in DOMAIN info :
            \A i, j \in DOMAIN info[key] :
                i < j => info[key][i].arrival_time <= info[key][j].arrival_time

\* A group was published in another order than its departures came in.
C5_Witness ==
    /\ cycle.outcome = "published"
    /\ \E key \in DOMAIN info :
           /\ Len(info[key]) >= 2
           /\ ArrivalTimes(info[key]) #
                  ArrivalTimes(GroupDetails(cycle.next_times, key, MergedFeed,
                                            cycle.positions))

\* The arrival delays, in seconds, of all the stop-time updates of the
\* entities of the feed that are trip updates of the trip.
RECURSIVE C9_Delays(_, _)
C9_Delays(entities, trip) ==
    IF entities = << >> THEN << >>
    ELSE (IF Head(entities).has_trip_update /\ Head(entities).trip_id = trip
          THEN [i \in DOMAIN Head(entities).stop_time_update |->
                   IF Head(entities).stop_time_update[i].has_arrival
                   THEN Head(entities).stop_time_update[i].delay ELSE 0]
          ELSE << >>) \o C9_Delays(Tail(entities), trip)

RECURSIVE C9_Sum(_)
C9_Sum(s) == IF s = << >> THEN 0 ELSE Head(s) + C9_Sum(Tail(s))

\* The whole minutes of a delay, cut towards zero.
C9_Whole(delay) == IF delay < 0 THEN -((-delay) \div 60) ELSE delay \div 60

\* The number of departures of the group whose effective time is v, the
\* effective time of a departure d being Effective(d); and the number of
\* published arrivals of the group with that time.
C9_Agree(key, Effective(_)) ==
    LET group == GroupOf(key)
        times == {Effective(group[i]) : i \in DOMAIN group}
                 \cup {info[key][i].arrival_time : i \in DOMAIN info[key]}
    IN  \A v \in times :
            Cardinality({i \in DOMAIN group : Effective(group[i]) = v})
            = Cardinality({i \in DOMAIN info[key] : info[key][i].arrival_time = v})

\* minutesUntil + floor(S / 60), S the sum of the delays in seconds.
C9_FloorOfSum(d) ==
    d.minutes + (C9_Sum(C9_Delays(MergedFeed, d.trip)) \div 60)

\* minutesUntil plus the whole minutes of each delay.
C9_SumOfWhole(d) ==
    LET delays == C9_Delays(MergedFeed, d.trip)
    IN  d.minutes + C9_Sum([i \in DOMAIN delays |-> C9_Whole(delays[i])])

\* C9 as stated: the published arrival time of every departure is its
\* minutes plus the floor of a sixtieth of the sum of the delays of its trip.
C9_DelayFloorOfSum ==
    cycle.outcome = "published" =>
        /\ DOMAIN info = GroupKeys
        /\ \A key \in GroupKeys : C9_Agree(key, C9_FloorOfSum)

\* C9, amended: the published arrival time of every departure is its minutes
\* plus, for each stop-time update with an arrival of the feed entities of
\* its trip, the whole minutes of that delay cut towards zero.
C9_DelayPerUpdate ==
    cycle.outcome = "published" =>
        /\ DOMAIN info = GroupKeys
        /\ \A key \in GroupKeys : C9_Agree(key, C9_SumOfWhole)

\* A departure was published whose trip the feed delays by 120 seconds at
\* one stop and nowhere else.
C9_Witness ==
    /\ cycle.outcome = "published"
    /\ \E i \in DOMAIN cycle.next_times :
           /\ C9_Delays(MergedFeed, cycle.next_times[i].trip) = << 120 >>
           /\ cycle.next_times[i].minutes = 10
           /\ \E key \in DOMAIN info : \E j \in DOMAIN info[key] :
                  info[key][j].arrival_time = 12

\* C10: a published arrival carries a position only when it is the position
\* of the vehicle that a trip-update entity of the trip of a departure of
\* its group names.
C10_PositionOfOwnTrip ==
    cycle.outcome = "published" =>
        \A key \in DOMAIN info : \A j \in DOMAIN info[key] :
            Truthy(info[key][j].position) =>
                \E i \in DOMAIN cycle.next_times, e \in DOMAIN MergedFeed :
                    /\ << cycle.next_times[i].route,
                          cycle.next_times[i].stop_name >> = key
                    /\ MergedFeed[e].has_trip_update
                    /\ MergedFeed[e].trip_id = cycle.next_times[i].trip
                    /\ MergedFeed[e].vehicle_id \in DOMAIN cycle.positions
                    /\ cycle.positions[MergedFeed[e].vehicle_id]
                           = info[key][j].position

====
